---- MODULE Spec2Model ----
(***************************************************************************)
(* A model of src/src/aggregate.js: the two entry points aggregate         *)
(* (signature mode) and aggregateDecodedFromABI (ABI mode), the memoized   *)
(* envelope builder they share, and the single await on ethCall at which   *)
(* an invocation suspends.                                                 *)
(*                                                                         *)
(* JavaScript strings that the code parses (signatures, method strings,    *)
(* type tags) are sequences of tokens: a name, a type tag, "(", ")", ",".  *)
(* A decoded value is a record [kind, str] where str is what toString()    *)
(* gives.  "undefined" stands for an absent target.                        *)
(***************************************************************************)
EXTENDS Integers, Sequences, FiniteSets, TLC

VARIABLES
  pc,            \* per invocation: "idle", "awaiting" (at await ethCall), "done"
  mode,          \* "sig" for aggregate, "abi" for aggregateDecodedFromABI
  input,         \* calls after line 40 / 120 (a single call wrapped in a list)
  norm,          \* calls after the map of lines 53-76 / 126-146
  ifaces,        \* interfacesByContractAddress, lines 122-124
  sent,          \* callDataBytes, the argument of ethCall, lines 78-79 / 148-149
  ethCalls,      \* how often the invocation has called ethCall
  builderCalls,  \* how often the invocation has called makeMulticallData
  response,      \* outerResults, what ethCall settled with
  outcome,       \* "ok" when the invocation returned, else the error thrown
  parsedVals,    \* parsedVals, lines 94-106
  retObj,        \* retObj, lines 108-114
  keyToArgMap,   \* keyToArgMap, lines 42-51
  decodedABI,    \* the sequence aggregateDecodedFromABI returns, lines 153-155
  cache,         \* the memoize cache of line 37: key -> blob
  encodeCount    \* key -> number of executions of _makeMulticallData

vars == <<pc, mode, input, norm, ifaces, sent, ethCalls, builderCalls,
          response, outcome, parsedVals, retObj, keyToArgMap, decodedABI,
          cache, encodeCount>>

(* ------------------------------ bounds -------------------------------- *)

\* longest call list an invocation is given
MaxCalls == 2
\* number of invocations that may be in flight in one process (SpecConc)
NProc == 3

Proc == 1..NProc

(* ------------------------- generic helpers ---------------------------- *)

Min(S) == CHOOSE x \in S : \A y \in S : x <= y

\* obj[k] = v on a plain JavaScript object
Put(f, k, v) == [x \in (DOMAIN f) \cup {k} |-> IF x = k THEN v ELSE f[x]]

RECURSIVE Concat(_)
\* seqs.reduce((acc, ele) => acc.concat(ele), [])
Concat(seqs) ==
  IF seqs = <<>> THEN <<>> ELSE Head(seqs) \o Concat(Tail(seqs))

RECURSIVE Join(_, _)
\* parts.join(sep)
Join(parts, sep) ==
  IF parts = <<>> THEN <<>>
  ELSE IF Len(parts) = 1 THEN parts[1]
  ELSE parts[1] \o <<sep>> \o Join(Tail(parts), sep)

(* ------------------- regular expressions and split -------------------- *)

RECURSIVE MatchAll(_, _)
\* every non-overlapping match of /\(.*?\)/ in s, scanning from position from
MatchAll(s, from) ==
  LET opens == {i \in from..Len(s) : s[i] = "("} IN
  IF opens = {} THEN <<>>
  ELSE LET o == Min(opens)
           closes == {j \in (o + 1)..Len(s) : s[j] = ")"}
       IN  IF closes = {} THEN <<>>
           ELSE <<SubSeq(s, o, Min(closes))>> \o MatchAll(s, Min(closes) + 1)

\* method.match(INSIDE_EVERY_PARENTHESES); no match (null) is the empty sequence
INSIDE_EVERY_PARENTHESES(s) == MatchAll(s, 1)

\* method.match(FIRST_CLOSING_PARENTHESES): /^[^)]*\)/, <<m>> or <<>> for null
FIRST_CLOSING_PARENTHESES(s) ==
  LET closes == {j \in 1..Len(s) : s[j] = ")"} IN
  IF closes = {} THEN <<>> ELSE <<SubSeq(s, 1, Min(closes))>>

\* match.slice(1, -1)
Slice(m) == SubSeq(m, 2, Len(m) - 1)

RECURSIVE Split(_)
\* str.split(','): "" splits into [""]
Split(s) ==
  LET commas == {i \in 1..Len(s) : s[i] = ","} IN
  IF commas = {} THEN <<s>>
  ELSE <<SubSeq(s, 1, Min(commas) - 1)>>
         \o Split(SubSeq(s, Min(commas) + 1, Len(s)))

\* .filter((e) => !!e)
FilterEmpty(parts) == SelectSeq(parts, LAMBDA e : e # <<>>)

(* --------------------------- configuration ---------------------------- *)

\* config.multicallAddress
multicallAddress == "MC"

\* !target
Absent(target) == target = "undefined"

(* ------------------------ values and the codec ------------------------ *)

BoolV(b) == [kind |-> "boolean", str |-> IF b THEN "true" ELSE "false"]
NumV(w)  == [kind |-> "number", str |-> IF w = 0 THEN "0" ELSE "1"]
AddrV(w) == [kind |-> "address", str |-> IF w = 0 THEN "0x0" ELSE "0x1"]
StrV(s)  == [kind |-> "string", str |-> s]

\* r.toString()
toString(r) == r.str

KnownTypes == {<<"bool">>, <<"uint256">>, <<"address">>}

\* the codec's decode of one 32-byte word under one type tag
DecodeValue(type, w) ==
  IF type = <<"bool">> THEN BoolV(w # 0)
  ELSE IF type = <<"uint256">> THEN NumV(w)
  ELSE AddrV(w)

\* decodeParameters(types, bytes): bytes is a sequence of words; fails when a
\* type tag is unknown or the data is shorter than the types need
DecodeParameters(types, bytes) ==
  IF \/ Len(bytes) < Len(types)
     \/ \E i \in 1..Len(types) : types[i] \notin KnownTypes
  THEN [ok |-> FALSE, vals |-> <<>>]
  ELSE [ok |-> TRUE,
        vals |-> [i \in 1..Len(types) |-> DecodeValue(types[i], bytes[i])]]

\* encodeParameters(types, values): an injective encoding, kept symbolic
EncodeParameters(types, values) == [types |-> types, values |-> values]

\* keccak256(toUtf8Bytes(method)).substr(0, 10)
Selector(method) == <<"keccak", method>>

\* a user transform applied to a value
ApplyTransform(t, v) ==
  IF t = "toStr" THEN StrV(toString(v)) ELSE NumV(0)

(* ----------------------- _makeMulticallData --------------------------- *)

CallData(c) ==
  [selector |-> Selector(c.method),
   encodedArgs |->
     IF Len(c.args) > 0
     THEN <<EncodeParameters([i \in 1..Len(c.args) |-> c.args[i][2]],
                             [i \in 1..Len(c.args) |-> c.args[i][1]])>>
     ELSE <<>>]

_makeMulticallData(calls) ==
  EncodeParameters(<<"tuple[]">>,
                   [i \in 1..Len(calls) |-> <<calls[i].target, CallData(calls[i])>>])

(* --------------------------- JSON.stringify --------------------------- *)

\* a returnMeta [key] or [key, transform]: a function serializes as null
JSONreturnMeta(m) == IF Len(m) = 1 THEN m ELSE <<m[1], "null">>

\* one normalized call: signature mode has five fields, ABI mode three
JSONcall(c) ==
  IF "returns" \in DOMAIN c
  THEN [method |-> c.method, args |-> c.args, returnTypes |-> c.returnTypes,
        target |-> c.target,
        returns |-> [i \in 1..Len(c.returns) |-> JSONreturnMeta(c.returns[i])],
        fields |-> 5]
  ELSE [method |-> c.method, args |-> c.args, returnTypes |-> <<>>,
        target |-> c.target, returns |-> <<>>, fields |-> 3]

\* a resolver that serializes only each call's method and target
ResolverMethodsOnly(calls) ==
  <<[i \in 1..Len(calls) |->
       [method |-> calls[i].method, args |-> <<>>, returnTypes |-> <<>>,
        target |-> calls[i].target, returns |-> <<>>, fields |-> 2]], "false">>

\* the memoize resolver (...args) => JSON.stringify(args), args = [calls, false]
Resolver(calls) == <<[i \in 1..Len(calls) |-> JSONcall(calls[i])], "false">>

\* a cache whose lookups always miss
CacheHasNever(key) == FALSE

\* MapCache.has(key) on the memoized function's cache
CacheHas(key) == key \in DOMAIN cache

(* ------------------------- signature mode ----------------------------- *)

RECURSIVE KeyToArgReturns(_, _, _)
\* lines 45-48: for (let returnMeta of returns) acc[key] = args
KeyToArgReturns(acc, returns, args) ==
  IF returns = <<>> THEN acc
  ELSE KeyToArgReturns(Put(acc, Head(returns)[1], args), Tail(returns), args)

\* the reducer's step without the args.length > 0 guard
KeyToArgStepNoGuard(acc, c) == KeyToArgReturns(acc, c.returns, Tail(c.call))

\* lines 43-50: the reducer's step for one call
KeyToArgStep(acc, c) ==
  LET args == Tail(c.call) IN
  IF Len(args) > 0 THEN KeyToArgReturns(acc, c.returns, args) ELSE acc

RECURSIVE KeyToArgReduce(_, _)
\* lines 42-51: calls.reduce(..., {})
KeyToArgReduce(acc, calls) ==
  IF calls = <<>> THEN acc
  ELSE KeyToArgReduce(KeyToArgStep(acc, Head(calls)), Tail(calls))

\* lines 53-76 for one call: [err, val]
NormalizeCall(c) ==
  LET target == IF Absent(c.target) THEN multicallAddress ELSE c.target
      method == Head(c.call)
      argValues == Tail(c.call)
      groups == INSIDE_EVERY_PARENTHESES(method)
      argTypes == FilterEmpty(Split(Slice(groups[1])))
      returnTypesString == IF Len(groups) >= 2 THEN Slice(groups[2]) ELSE <<>>
  IN
  IF groups = <<>> THEN [err |-> "TypeError", val |-> <<>>]
  ELSE IF Len(argTypes) # Len(argValues)
  THEN [err |-> "MalformedCallArguments", val |-> <<>>]
  ELSE [err |-> "none",
        val |-> [method |-> FIRST_CLOSING_PARENTHESES(method)[1],
                 args |-> [i \in 1..Len(argValues) |-> <<argValues[i], argTypes[i]>>],
                 returnTypes |-> IF returnTypesString # <<>>
                                 THEN Split(returnTypesString) ELSE <<>>,
                 target |-> target,
                 returns |-> c.returns]]

\* calls.map(...) of lines 53-76: the first call that throws ends the map
Normalize(calls) ==
  LET each == [i \in 1..Len(calls) |-> NormalizeCall(calls[i])]
      bad == {i \in 1..Len(calls) : each[i].err # "none"}
  IN IF bad # {} THEN [err |-> each[Min(bad)].err, val |-> <<>>]
     ELSE [err |-> "none", val |-> [i \in 1..Len(calls) |-> each[i].val]]

\* the coercion comparing the decoded value itself, without toString()
CoerceStrict(type, r) ==
  IF type = <<"bool">> THEN BoolV(r = StrV("true")) ELSE r

\* lines 99-102: the boolean coercion of one decoded field
Coerce(type, r) ==
  IF type = <<"bool">> THEN BoolV(toString(r) = "true") ELSE r

\* lines 95-104 for the idx-th result blob: [err, vals]
ParseBlob(calls, results, idx) ==
  IF idx > Len(calls) THEN [err |-> "TypeError", vals |-> <<>>]
  ELSE LET types == calls[idx].returnTypes
           resultsDecoded == DecodeParameters(types, results)
       IN IF ~resultsDecoded.ok THEN [err |-> "DecodeFailure", vals |-> <<>>]
          ELSE [err |-> "none",
                vals |-> [i \in 1..Len(types) |->
                            Coerce(types[i], resultsDecoded.vals[i])]]

\* lines 94-106: the flat sequence of all decoded fields, or the first error
ParseVals(calls, returnData) ==
  LET each == [i \in 1..Len(returnData) |-> ParseBlob(calls, returnData[i], i)]
      bad == {i \in 1..Len(returnData) : each[i].err # "none"}
  IN IF bad # {} THEN [err |-> each[Min(bad)].err, vals |-> <<>>]
     ELSE [err |-> "none",
           vals |-> Concat([i \in 1..Len(returnData) |-> each[i].vals])]

EmptyRet == [blockNumber |-> 0, original |-> <<>>, transformed |-> <<>>]

RECURSIVE MapLoop(_, _, _, _)
\* lines 110-114 from index i on: [err, ret]
MapLoop(ret, vals, meta, i) ==
  IF i > Len(vals) THEN [err |-> "none", ret |-> ret]
  ELSE IF i > Len(meta) THEN [err |-> "TypeError", ret |-> ret]
  ELSE LET name == meta[i][1]
           v == vals[i]
           tv == IF Len(meta[i]) >= 2 THEN ApplyTransform(meta[i][2], v) ELSE v
       IN MapLoop([ret EXCEPT !.original = Put(@, name, v),
                              !.transformed = Put(@, name, tv)],
                  vals, meta, i + 1)

\* lines 80-116: everything after the await, [outcome, parsedVals, retObj]
Finish(calls, resp) ==
  LET returnTypeArray == Concat([i \in 1..Len(calls) |-> calls[i].returnTypes])
      returnDataMeta == Concat([i \in 1..Len(calls) |-> calls[i].returns])
      parsed == ParseVals(calls, resp.returnData)
      mapped == MapLoop([EmptyRet EXCEPT !.blockNumber = resp.blockNumber],
                        parsed.vals, returnDataMeta, 1)
      failed(e) == [outcome |-> e, parsedVals |-> <<>>, retObj |-> EmptyRet]
  IN
  IF resp.kind = "rpcError" THEN failed("RpcCallFailed")
  ELSE IF Len(returnTypeArray) # Len(returnDataMeta) THEN failed("ResultArityMismatch")
  ELSE IF resp.kind = "garbage" THEN failed("DecodeFailure")
  ELSE IF parsed.err # "none" THEN failed(parsed.err)
  ELSE IF mapped.err # "none" THEN failed(mapped.err)
  ELSE [outcome |-> "ok", parsedVals |-> parsed.vals, retObj |-> mapped.ret]

(* ----------------------------- ABI mode ------------------------------- *)

\* a function fragment's canonical signature name(t1,t2,...)
Format(frag) == frag.name \o <<"(">> \o Join(frag.inputs, ",") \o <<")">>

\* Interface.getFunction(nameOrSignature): <<fragment>>, or <<>> when it throws
\* (no matching function, or a bare name that matches several)
GetFunction(iface, nameOrSignature) ==
  LET bySig == \E i \in 1..Len(nameOrSignature) : nameOrSignature[i] = "("
      matching == {i \in 1..Len(iface) :
                     IF bySig THEN Format(iface[i]) = nameOrSignature
                     ELSE iface[i].name = nameOrSignature}
  IN IF Cardinality(matching) = 1 THEN <<iface[CHOOSE i \in matching : TRUE]>>
     ELSE <<>>

\* Interface.decodeFunctionResult(method, result): [err, vals]
DecodeFunctionResult(iface, method, result) ==
  LET f == GetFunction(iface, method)
      d == DecodeParameters(f[1].outputs, result)
  IN IF f = <<>> THEN [err |-> "NoMatchingFunction", vals |-> <<>>]
     ELSE IF ~d.ok THEN [err |-> "DecodeFailure", vals |-> <<>>]
     ELSE [err |-> "none", vals |-> d.vals]

RECURSIVE InterfacesFromEntries(_, _)
\* lines 122-124: Object.fromEntries(calls.map(...)), a later entry replaces
\* an earlier one with the same key; an absent target is the key "undefined"
InterfacesFromEntries(acc, calls) ==
  IF calls = <<>> THEN acc
  ELSE InterfacesFromEntries(Put(acc, Head(calls).target, Head(calls).abi),
                             Tail(calls))

interfacesByContractAddress(calls) == InterfacesFromEntries(<<>>, calls)

\* lines 126-146 for one call: [err, val]
NormalizeCallABI(c, interfaces) ==
  LET contractInterface == interfaces[c.target]
      target == IF Absent(c.target) THEN multicallAddress ELSE c.target
      method == Head(c.call)
      argValues == Tail(c.call)
      f == GetFunction(contractInterface, method)
      argTypes == f[1].inputs
  IN
  IF f = <<>> THEN [err |-> "NoMatchingFunction", val |-> <<>>]
  ELSE IF Len(argTypes) # Len(argValues)
  THEN [err |-> "MalformedCallArguments", val |-> <<>>]
  ELSE [err |-> "none",
        val |-> [method |-> method \o <<"(">> \o Join(argTypes, ",") \o <<")">>,
                 args |-> [i \in 1..Len(argValues) |-> <<argValues[i], argTypes[i]>>],
                 target |-> target]]

\* calls.map(...) of lines 126-146: the first call that throws ends the map
NormalizeABI(calls, interfaces) ==
  LET each == [i \in 1..Len(calls) |-> NormalizeCallABI(calls[i], interfaces)]
      bad == {i \in 1..Len(calls) : each[i].err # "none"}
  IN IF bad # {} THEN [err |-> each[Min(bad)].err, val |-> <<>>]
     ELSE [err |-> "none", val |-> [i \in 1..Len(calls) |-> each[i].val]]

\* lines 153-155 for the i-th result blob: [err, vals]
DecodeOneABI(calls, interfaces, result, i) ==
  IF i > Len(calls) THEN [err |-> "TypeError", vals |-> <<>>]
  ELSE IF calls[i].target \notin DOMAIN interfaces
  THEN [err |-> "TypeError", vals |-> <<>>]
  ELSE DecodeFunctionResult(interfaces[calls[i].target], calls[i].method, result)

\* lines 151-155: everything after the await, [outcome, decoded]
FinishABI(calls, interfaces, resp) ==
  LET each == [i \in 1..Len(resp.returnData) |->
                 DecodeOneABI(calls, interfaces, resp.returnData[i], i)]
      bad == {i \in 1..Len(resp.returnData) : each[i].err # "none"}
  IN
  IF resp.kind = "rpcError" THEN [outcome |-> "RpcCallFailed", decoded |-> <<>>]
  ELSE IF resp.kind = "garbage" THEN [outcome |-> "DecodeFailure", decoded |-> <<>>]
  ELSE IF bad # {} THEN [outcome |-> each[Min(bad)].err, decoded |-> <<>>]
  ELSE [outcome |-> "ok",
        decoded |-> [i \in 1..Len(resp.returnData) |-> each[i].vals]]

(* ------------------------------ inputs -------------------------------- *)

SigF == <<"f", "(", "address", ")", "(", "uint256", ")">>
SigG == <<"g", "(", ")", "(", "bool", ")">>
SigH == <<"h", "(", "address", ",", "uint256", ")", "(", "uint256", ",", "bool", ")">>
SigK == <<"k", "(", "address", ")">>

\* signature-mode call descriptions {call, target, returns}
SigPool ==
  { [call |-> <<SigF, "0xA">>, target |-> "T1", returns |-> << <<"a">> >>],
    [call |-> <<SigF, "0xA">>, target |-> "T1", returns |-> << <<"a", "toStr">> >>],
    [call |-> <<SigG>>, target |-> "undefined", returns |-> << <<"a", "zero">> >>],
    [call |-> <<SigH, "0xA", "1">>, target |-> "T1",
       returns |-> << <<"a">>, <<"b", "toStr">> >>],
    [call |-> <<SigH, "0xA">>, target |-> "T1", returns |-> << <<"a">>, <<"b">> >>],
    [call |-> <<SigH, "0xB", "1">>, target |-> "T1", returns |-> << <<"b">> >>],
    [call |-> <<SigK, "0xB">>, target |-> "undefined", returns |-> << <<"c">> >>] }

FragF  == [name |-> <<"f">>, inputs |-> << <<"address">> >>,
           outputs |-> << <<"uint256">> >>]
FragG  == [name |-> <<"g">>, inputs |-> << <<"address">>, <<"uint256">> >>,
           outputs |-> << <<"bool">> >>]
FragF2 == [name |-> <<"f">>, inputs |-> << <<"address">>, <<"uint256">> >>,
           outputs |-> << <<"bool">>, <<"uint256">> >>]

\* ABI-mode call descriptions {abi, call, target}; every method is in its own abi
ABIPool ==
  { [abi |-> <<FragF>>, call |-> << <<"f">>, "0xA" >>, target |-> "T1"],
    [abi |-> <<FragG>>, call |-> << <<"g">>, "0xA", "1" >>, target |-> "T1"],
    [abi |-> <<FragG>>, call |-> << <<"g">>, "0xA" >>, target |-> "T1"],
    [abi |-> <<FragF>>, call |-> << <<"f">>, "0xA" >>, target |-> "undefined"],
    [abi |-> <<FragF2>>, call |-> << <<"f">>, "0xA", "1" >>, target |-> "MC"],
    [abi |-> <<FragF2>>, call |-> << <<"f">>, "0xA", "1" >>, target |-> "T1"] }

SeqsUpTo(S, n) == UNION {[1..k -> S] : k \in 0..n}

SigLists == SeqsUpTo(SigPool, MaxCalls)
ABILists == SeqsUpTo(ABIPool, MaxCalls)

\* result blobs the remote node may return for one call, as 32-byte words
Blobs == {<<>>, <<0, 1>>, <<1, 0>>}

RpcError == [kind |-> "rpcError", blockNumber |-> 0, returnData |-> <<>>]
Garbage  == [kind |-> "garbage", blockNumber |-> 0, returnData |-> <<>>]
Returned(rd) == [kind |-> "ok", blockNumber |-> 100, returnData |-> rd]

\* what ethCall may deliver to an invocation that submitted n calls
Responses(n) == {RpcError, Garbage} \cup {Returned(rd) : rd \in SeqsUpTo(Blobs, n + 1)}

(* --------------------------- state machine ---------------------------- *)

Init ==
  /\ pc = [p \in Proc |-> "idle"]
  /\ mode = [p \in Proc |-> "none"]
  /\ input = [p \in Proc |-> <<>>]
  /\ norm = [p \in Proc |-> <<>>]
  /\ ifaces = [p \in Proc |-> <<>>]
  /\ sent = [p \in Proc |-> <<>>]
  /\ ethCalls = [p \in Proc |-> 0]
  /\ builderCalls = [p \in Proc |-> 0]
  /\ response = [p \in Proc |-> <<>>]
  /\ outcome = [p \in Proc |-> "none"]
  /\ parsedVals = [p \in Proc |-> <<>>]
  /\ retObj = [p \in Proc |-> EmptyRet]
  /\ keyToArgMap = [p \in Proc |-> <<>>]
  /\ decodedABI = [p \in Proc |-> <<>>]
  /\ cache = <<>>
  /\ encodeCount = <<>>

\* an invocation that throws before its await
Throw(p, m, calls, err) ==
  /\ pc' = [pc EXCEPT ![p] = "done"]
  /\ mode' = [mode EXCEPT ![p] = m]
  /\ input' = [input EXCEPT ![p] = calls]
  /\ outcome' = [outcome EXCEPT ![p] = err]
  /\ UNCHANGED <<norm, sent, ethCalls, builderCalls, response, parsedVals,
                 retObj, decodedABI, cache, encodeCount>>

\* line 37 and lines 78-79 / 148-149: the memoized builder is called on the
\* normalized list, and its value is handed to ethCall, where p suspends
BuildAndCall(p, m, calls, normalized) ==
  LET key == Resolver(normalized)
      hit == CacheHas(key)
      callDataBytes == IF hit THEN cache[key] ELSE _makeMulticallData(normalized)
      before == IF key \in DOMAIN encodeCount THEN encodeCount[key] ELSE 0
  IN
  /\ cache' = IF hit THEN cache ELSE Put(cache, key, callDataBytes)
  /\ encodeCount' = IF hit THEN encodeCount ELSE Put(encodeCount, key, before + 1)
  /\ builderCalls' = [builderCalls EXCEPT ![p] = @ + 1]
  /\ sent' = [sent EXCEPT ![p] = callDataBytes]
  /\ ethCalls' = [ethCalls EXCEPT ![p] = @ + 1]
  /\ pc' = [pc EXCEPT ![p] = "awaiting"]
  /\ mode' = [mode EXCEPT ![p] = m]
  /\ input' = [input EXCEPT ![p] = calls]
  /\ norm' = [norm EXCEPT ![p] = normalized]
  /\ UNCHANGED <<response, outcome, parsedVals, retObj, decodedABI>>

\* aggregate(calls, config), lines 39-79: up to the await on ethCall
aggregate(p, arg, isArray) ==
  LET calls == IF isArray THEN arg ELSE <<arg>>
      n == Normalize(calls)
  IN
  /\ pc[p] = "idle"
  /\ keyToArgMap' = [keyToArgMap EXCEPT ![p] = KeyToArgReduce(<<>>, calls)]
  /\ UNCHANGED ifaces
  /\ IF n.err # "none" THEN Throw(p, "sig", calls, n.err)
     ELSE BuildAndCall(p, "sig", calls, n.val)

\* aggregate, lines 79-116: ethCall settles with resp
aggregateResume(p, resp) ==
  LET fin == Finish(norm[p], resp) IN
  /\ pc[p] = "awaiting"
  /\ mode[p] = "sig"
  /\ pc' = [pc EXCEPT ![p] = "done"]
  /\ response' = [response EXCEPT ![p] = resp]
  /\ outcome' = [outcome EXCEPT ![p] = fin.outcome]
  /\ parsedVals' = [parsedVals EXCEPT ![p] = fin.parsedVals]
  /\ retObj' = [retObj EXCEPT ![p] = fin.retObj]
  /\ UNCHANGED <<mode, input, norm, ifaces, sent, ethCalls, builderCalls,
                 keyToArgMap, decodedABI, cache, encodeCount>>

\* aggregateDecodedFromABI(calls, config), lines 119-149: up to the await
aggregateDecodedFromABI(p, arg, isArray) ==
  LET calls == IF isArray THEN arg ELSE <<arg>>
      interfaces == interfacesByContractAddress(calls)
      n == NormalizeABI(calls, interfaces)
  IN
  /\ pc[p] = "idle"
  /\ ifaces' = [ifaces EXCEPT ![p] = interfaces]
  /\ UNCHANGED keyToArgMap
  /\ IF n.err # "none" THEN Throw(p, "abi", calls, n.err)
     ELSE BuildAndCall(p, "abi", calls, n.val)

\* aggregateDecodedFromABI, lines 149-155: ethCall settles with resp
aggregateDecodedFromABIResume(p, resp) ==
  LET fin == FinishABI(norm[p], ifaces[p], resp) IN
  /\ pc[p] = "awaiting"
  /\ mode[p] = "abi"
  /\ pc' = [pc EXCEPT ![p] = "done"]
  /\ response' = [response EXCEPT ![p] = resp]
  /\ outcome' = [outcome EXCEPT ![p] = fin.outcome]
  /\ decodedABI' = [decodedABI EXCEPT ![p] = fin.decoded]
  /\ UNCHANGED <<mode, input, norm, ifaces, sent, ethCalls, builderCalls,
                 parsedVals, retObj, keyToArgMap, cache, encodeCount>>

\* one invocation of either entry point, over every input and every response
Next ==
  \/ \E calls \in SigLists : aggregate(1, calls, TRUE)
  \/ \E c \in SigPool : aggregate(1, c, FALSE)
  \/ \E resp \in Responses(Len(norm[1])) : aggregateResume(1, resp)
  \/ \E calls \in ABILists : aggregateDecodedFromABI(1, calls, TRUE)
  \/ \E c \in ABIPool : aggregateDecodedFromABI(1, c, FALSE)
  \/ \E resp \in Responses(Len(norm[1])) : aggregateDecodedFromABIResume(1, resp)

Spec == Init /\ [][Next]_vars

\* call lists submitted by concurrent invocations: the first two differ only
\* in their transform functions, the third only in an argument value
ConcSigLists ==
  { << [call |-> <<SigF, "0xA">>, target |-> "T1", returns |-> << <<"a", "toStr">> >>] >>,
    << [call |-> <<SigF, "0xA">>, target |-> "T1", returns |-> << <<"a", "zero">> >>] >>,
    << [call |-> <<SigF, "0xB">>, target |-> "T1", returns |-> << <<"a", "zero">> >>] >> }

ConcABILists ==
  { << [abi |-> <<FragF>>, call |-> << <<"f">>, "0xA" >>, target |-> "T1"] >> }

ConcResponses(n) == {RpcError, Returned([i \in 1..n |-> <<1, 0>>])}

\* NProc invocations interleaved at their awaits, sharing the memoize cache
NextConc ==
  \E p \in Proc :
    \/ \E calls \in ConcSigLists : aggregate(p, calls, TRUE)
    \/ \E resp \in ConcResponses(Len(norm[p])) : aggregateResume(p, resp)
    \/ \E calls \in ConcABILists : aggregateDecodedFromABI(p, calls, TRUE)
    \/ \E resp \in ConcResponses(Len(norm[p])) : aggregateDecodedFromABIResume(p, resp)

SpecConc == Init /\ [][NextConc]_vars

(* ------------------------ vocabulary of the claims -------------------- *)

Max(S) == CHOOSE x \in S : \A y \in S : x >= y

Started(p) == pc[p] # "idle"
Returned_ok(p) == pc[p] = "done" /\ outcome[p] = "ok"
SigDone(p) == mode[p] = "sig" /\ Returned_ok(p)

\* the flat return-field-spec sequence and the flat declared-type sequence
Meta(p) == Concat([i \in 1..Len(norm[p]) |-> norm[p][i].returns])
Types(p) == Concat([i \in 1..Len(norm[p]) |-> norm[p][i].returnTypes])
Keys(p) == {Meta(p)[i][1] : i \in 1..Len(Meta(p))}

\* call i of invocation p supplies a number of argument values different from
\* the number of argument types the code resolves for it
Mismatch(p, i) ==
  IF mode[p] = "sig"
  THEN NormalizeCall(input[p][i]).err = "MalformedCallArguments"
  ELSE NormalizeCallABI(input[p][i], ifaces[p]).err = "MalformedCallArguments"

(* ------------------------------- C1 ----------------------------------- *)

\* C1: in both modes, an invocation whose call list holds a call with an
\* argument-count mismatch fails with the argument-mismatch error, and neither
\* the envelope builder nor ethCall is invoked.
C1_MismatchFailsFast ==
  \A p \in Proc :
    (Started(p) /\ \E i \in 1..Len(input[p]) : Mismatch(p, i))
      => /\ pc[p] = "done"
         /\ outcome[p] = "MalformedCallArguments"
         /\ ethCalls[p] = 0
         /\ builderCalls[p] = 0

(* ------------------------------- C2 ----------------------------------- *)

\* C2: aggregate never returns a partial result: whenever it returns, the flat
\* decoded sequence is as long as the flat return-field-spec sequence and every
\* spec's key has been written; when it fails, nothing has been written.
C2_NoPartialResult ==
  \A p \in Proc :
    (mode[p] = "sig" /\ pc[p] = "done")
      => IF outcome[p] = "ok"
         THEN /\ Len(parsedVals[p]) = Len(Meta(p))
              /\ Keys(p) \subseteq DOMAIN retObj[p].original
              /\ Keys(p) \subseteq DOMAIN retObj[p].transformed
         ELSE retObj[p] = EmptyRet

(* ------------------------------- C3 ----------------------------------- *)

HasEnvelope(p) == Started(p) /\ builderCalls[p] > 0

\* C3: the encoding step _makeMulticallData runs at most once per distinct
\* serialized call list, and two invocations whose normalized lists serialize
\* alike are handed the identical envelope blob.
C3_EncodedOncePerKey ==
  /\ \A k \in DOMAIN encodeCount : encodeCount[k] <= 1
  /\ \A p, q \in Proc :
       (HasEnvelope(p) /\ HasEnvelope(q) /\ Resolver(norm[p]) = Resolver(norm[q]))
         => sent[p] = sent[q]

\* two invocations submitted lists that serialize alike although the lists
\* themselves differ, and the encoding step has run once for them
C3_Witness ==
  \E p, q \in Proc :
    /\ p # q /\ HasEnvelope(p) /\ HasEnvelope(q)
    /\ input[p] # input[q]
    /\ Resolver(norm[p]) = Resolver(norm[q])
    /\ encodeCount[Resolver(norm[p])] = 1

(* ------------------------------- C4 ----------------------------------- *)

LastPos(p, k) == Max({i \in 1..Len(Meta(p)) : Meta(p)[i][1] = k})

\* C4: after a successful aggregate, original[k] is the decoded value at the
\* last flat position whose spec key is k, and transformed[k] is that
\* position's transform of it (or the value itself), for every declared key k.
C4_LastWriteWins ==
  \A p \in Proc :
    SigDone(p) =>
      \A k \in Keys(p) :
        LET last == LastPos(p, k)
            m == Meta(p)[last]
        IN /\ last <= Len(parsedVals[p])
           /\ k \in DOMAIN retObj[p].original
           /\ retObj[p].original[k] = parsedVals[p][last]
           /\ retObj[p].transformed[k] =
                IF Len(m) >= 2 THEN ApplyTransform(m[2], parsedVals[p][last])
                ELSE parsedVals[p][last]

(* ------------------------------- C5 ----------------------------------- *)

\* what the codec decodes for field j of the i-th result blob
Field(p, i, j) ==
  DecodeParameters(norm[p][i].returnTypes, response[p].returnData[i]).vals[j]

\* the claimed flat value of that field
Claimed(p, i, j) ==
  IF norm[p][i].returnTypes[j] = <<"bool">>
  THEN BoolV(Field(p, i, j).str = "true")
  ELSE Field(p, i, j)

\* C5: every declared-boolean field enters the flat result sequence as true
\* iff the string form of its decoded value is "true", and every other field
\* enters it unchanged.
C5_BoolCoercion ==
  \A p \in Proc :
    SigDone(p) =>
      parsedVals[p] =
        Concat([i \in 1..Len(response[p].returnData) |->
                  [j \in 1..Len(norm[p][i].returnTypes) |-> Claimed(p, i, j)]])

\* a returned result whose flat sequence holds a boolean field that decoded to
\* true, one that decoded to false, and a field of another type
C5_Witness ==
  \E p \in Proc :
    /\ SigDone(p)
    /\ \E i, j \in 1..Len(parsedVals[p]) :
         /\ i <= Len(Types(p)) /\ j <= Len(Types(p))
         /\ Types(p)[i] = <<"bool">> /\ parsedVals[p][i] = BoolV(TRUE)
         /\ Types(p)[j] = <<"bool">> /\ parsedVals[p][j] = BoolV(FALSE)
    /\ \E i \in 1..Len(parsedVals[p]) :
         i <= Len(Types(p)) /\ Types(p)[i] = <<"uint256">>
                            /\ parsedVals[p][i] = NumV(1)

(* ------------------------------- C6 ----------------------------------- *)

ArgValues(p, i) == Tail(input[p][i].call)
Declares(p, i, k) ==
  \E j \in 1..Len(input[p][i].returns) : input[p][i].returns[j][1] = k

\* C6 as claimed: keyToArgMap holds k only if a call with an argument value
\* declares k, and keyToArgMap[k] is the argument list of the last call in
\* submission order that declares k.
C6_LastDeclaringCall ==
  \A p \in Proc :
    SigDone(p) =>
      \A k \in DOMAIN keyToArgMap[p] :
        /\ \E i \in 1..Len(input[p]) : Len(ArgValues(p, i)) > 0 /\ Declares(p, i, k)
        /\ keyToArgMap[p][k] =
             ArgValues(p, Max({i \in 1..Len(input[p]) : Declares(p, i, k)}))

\* C6 as amended: keyToArgMap holds exactly the keys declared by a call with at
\* least one argument value, and keyToArgMap[k] is the argument list of the
\* last call in submission order that has an argument value and declares k.
C6_LastDeclaringCallWithArgs ==
  \A p \in Proc :
    SigDone(p) =>
      /\ DOMAIN keyToArgMap[p] =
           {k \in Keys(p) : \E i \in 1..Len(input[p]) :
                              Len(ArgValues(p, i)) > 0 /\ Declares(p, i, k)}
      /\ \A k \in DOMAIN keyToArgMap[p] :
           keyToArgMap[p][k] =
             ArgValues(p, Max({i \in 1..Len(input[p]) :
                                 Len(ArgValues(p, i)) > 0 /\ Declares(p, i, k)}))

\* a returned result where a key declared by a call with arguments is declared
\* again by a later call without arguments
C6_Witness ==
  \E p \in Proc :
    /\ SigDone(p)
    /\ \E k \in DOMAIN keyToArgMap[p] :
         \E i, j \in 1..Len(input[p]) :
           /\ i < j
           /\ Len(ArgValues(p, i)) > 0 /\ Declares(p, i, k)
           /\ Len(ArgValues(p, j)) = 0 /\ Declares(p, j, k)

(* ------------------------------- C7 ----------------------------------- *)

\* call i's method resolved in the interface built from call i's own abi
OwnFunction(p, i) == GetFunction(input[p][i].abi, Head(input[p][i].call))

\* every call names a method of its own abi with as many values as inputs
OwnValid(p) ==
  \A i \in 1..Len(input[p]) :
    /\ OwnFunction(p, i) # <<>>
    /\ Len(OwnFunction(p, i)[1].inputs) = Len(Tail(input[p][i].call))

\* the response holds one blob per call, each long enough for that call's own
\* output types
WellFormed(p) ==
  /\ response[p].kind = "ok"
  /\ Len(response[p].returnData) = Len(input[p])
  /\ \A i \in 1..Len(input[p]) :
       Len(response[p].returnData[i]) >= Len(OwnFunction(p, i)[1].outputs)

\* C7: aggregateDecodedFromABI returns one entry per call, in call order, and
\* entry i is the i-th result blob decoded with the interface of call i's own
\* abi under call i's canonical method string; also when calls share a target
\* with different abis and when a target is absent.
C7_DecodedWithOwnAbi ==
  \A p \in Proc :
    (mode[p] = "abi" /\ pc[p] = "done" /\ OwnValid(p))
      => /\ ethCalls[p] = 1
         /\ WellFormed(p) =>
              /\ outcome[p] = "ok"
              /\ Len(decodedABI[p]) = Len(input[p])
              /\ \A i \in 1..Len(input[p]) :
                   decodedABI[p][i] =
                     DecodeFunctionResult(input[p][i].abi,
                                          Format(OwnFunction(p, i)[1]),
                                          response[p].returnData[i]).vals

(* ------------------------------- C8 ----------------------------------- *)

\* C8: a call list whose total number of declared return types differs from
\* its total number of return-field specs fails without ethCall having been
\* invoked, and only RPC and decode failures are raised after ethCall.
C8_ArityCheckedBeforeEthCall ==
  \A p \in Proc :
    (mode[p] = "sig" /\ Started(p))
      => /\ (ethCalls[p] > 0 => Len(Types(p)) = Len(Meta(p)))
         /\ (ethCalls[p] > 0 /\ pc[p] = "done" /\ outcome[p] # "ok")
              => outcome[p] \in {"RpcCallFailed", "DecodeFailure"}

(* ------------------------------- C9 ----------------------------------- *)

DistinctKeys(p) ==
  \A i, j \in 1..Len(Meta(p)) : Meta(p)[i][1] = Meta(p)[j][1] => i = j

\* C9: when aggregate returns for a batch with pairwise distinct keys, every
\* value stored under the j-th return-field spec of call i is the j-th field
\* decoded from call i's own result blob with call i's return types.
C9_ValuesFromOwnBlob ==
  \A p \in Proc :
    (SigDone(p) /\ DistinctKeys(p)) =>
      \A i \in 1..Len(norm[p]) :
        \A j \in 1..Len(norm[p][i].returns) :
          LET k == norm[p][i].returns[j][1] IN
          k \in DOMAIN retObj[p].original =>
            /\ i <= Len(response[p].returnData)
            /\ j <= Len(norm[p][i].returnTypes)
            /\ retObj[p].original[k] = Claimed(p, i, j)

(* ------------------------------- C10 ---------------------------------- *)

\* every normalized call list an invocation of SpecConc can submit
ConcNormalized ==
  {Normalize(l).val : l \in ConcSigLists}
    \cup {NormalizeABI(l, interfacesByContractAddress(l)).val : l \in ConcABILists}

\* each cache entry is the blob the unmemoized builder computes for every call
\* list that serializes to its key, and some submitted list does
CacheCorrect ==
  \A k \in DOMAIN cache :
    /\ \E p \in Proc : HasEnvelope(p) /\ Resolver(norm[p]) = k
    /\ \A l \in ConcNormalized : Resolver(l) = k => cache[k] = _makeMulticallData(l)

\* each invocation hands ethCall the envelope of its own call list
OwnEnvelope ==
  \A p \in Proc : ethCalls[p] > 0 => sent[p] = _makeMulticallData(norm[p])

\* an entry once written is neither removed nor changed
CacheStable ==
  \A k \in DOMAIN cache : k \in DOMAIN cache' /\ cache'[k] = cache[k]

\* C10: under every interleaving of invocations that suspend only at ethCall,
\* the shared cache maps each key to the blob of the call list serializing to
\* it, entries are never removed or changed, and each invocation passes
\* ethCall the envelope of its own call list.
C10_CacheConsistent == [](CacheCorrect /\ OwnEnvelope) /\ [][CacheStable]_vars

\* two invocations are suspended at ethCall at once, one of them served from
\* the entry another invocation wrote, while the cache holds a second entry
C10_Witness ==
  \E p, q \in Proc :
    /\ p # q /\ pc[p] = "awaiting" /\ pc[q] = "awaiting"
    /\ Resolver(norm[p]) # Resolver(norm[q])
    /\ Cardinality(DOMAIN cache) >= 2
    /\ \E r \in Proc : r # p /\ HasEnvelope(r) /\ input[r] # input[p]
                       /\ Resolver(norm[r]) = Resolver(norm[p])

====
